---- MODULE Spec2Model ----
(***************************************************************************)
(* Reference datatypes of the H5T interface (H5Tref.c) and the blob        *)
(* callbacks of the native VOL connector.                                  *)
(*                                                                         *)
(* SpecLoc  : the location descriptor of a reference datatype and          *)
(*            H5T__ref_set_loc.                                            *)
(* SpecDisk : one on-disk generic reference record, the global heap behind *)
(*            it, and H5T__ref_disk_write on top of the native blob        *)
(*            callbacks.                                                   *)
(* SpecGetsize : H5T__ref_disk_getsize applied to the bytes of a record.   *)
(* SpecBlob : the native blob callbacks put, get, specific and optional on *)
(*            one blob ID buffer and the global heap.                      *)
(* SpecMem  : H5T__ref_mem_getsize and H5T__ref_mem_read on one reference  *)
(*            held in memory.                                              *)
(* SpecMemWrite : H5T__ref_mem_write into the reference held in memory and *)
(*            the reference counts of the file identifiers.                *)
(***************************************************************************)
EXTENDS Integers, Sequences, FiniteSets, TLC

VARIABLES
    dt,         \* dt->shared of the reference datatype (size, prec, u.atomic.u.r)
    files,      \* per container: sizeof_addr and the fields of H5VL_file_cont_info_t
    call,       \* the last H5T__ref_set_loc call: arguments, result, dt before it
    prevcall,   \* the arguments of the call before the last one
    sizeof_addr,\* H5F_SIZEOF_ADDR of the destination file of the disk record
    heap,       \* global heap of the destination file: heap ID -> stored bytes
    dst_buf,    \* the bytes of the on-disk reference record
    wr,         \* the last H5T__ref_disk_write call: arguments, blob calls, result
    nwrites,    \* number of H5T__ref_disk_write and H5T__ref_disk_read calls made
    gs,         \* the last H5T__ref_disk_getsize call: arguments and result
    vl,         \* the caller's blob ID buffer handed to the native blob callbacks
    get_buf,    \* the caller's destination buffer of H5VL__native_blob_get
    bop,        \* the last native blob callback: arguments, result, state before it
    rd,         \* the last H5T__ref_disk_read call: arguments, memory at dst_buf, result
    href,       \* the reference in memory (struct href) handed to the memory converters
    mq,         \* the last two H5T__ref_mem_getsize calls: arguments and results
    mr,         \* the last H5T__ref_mem_read call: arguments, memory at dst_buf, result
    idcount,    \* reference count of each file identifier (H5I)
    mw          \* the last H5T__ref_mem_write call: arguments, result, counts before it

vars == <<dt, files, call, prevcall, sizeof_addr, heap, dst_buf, wr, nwrites, gs,
          vl, get_buf, bop, rd, href, mq, mr, idcount, mw>>
locVars == <<dt, files, call, prevcall>>
diskVars == <<sizeof_addr, heap, dst_buf, wr, nwrites>>
blobVars == <<vl, get_buf, bop>>
memVars == <<href, mq, mr, idcount, mw>>
auxVars == <<gs, blobVars, memVars>>

NULL == "NULL"
FAIL == "FAIL"
SUCCEED == "SUCCEED"

(***************************************************************************)
(* Enumerations and sizes used by H5Tref.c                                 *)
(***************************************************************************)
H5T_LOC_BADLOC == 0
H5T_LOC_MEMORY == 1
H5T_LOC_DISK == 2
H5T_LOC_MAXLOC == 3

H5R_OBJECT1 == 0
H5R_DATASET_REGION1 == 1
H5R_OBJECT2 == 2
H5R_DATASET_REGION2 == 3
H5R_ATTR == 4
H5R_MAXTYPE == 5
H5R_BADTYPE == -1

H5T_REF_MEM_SIZE == 64
H5T_REF_OBJ_MEM_SIZE == 8
H5T_REF_DSETREG_MEM_SIZE == 12

H5_SIZEOF_UINT32_T == 4
H5R_ENCODE_HEADER_SIZE == 2

MAX(a, b) == IF a > b THEN a ELSE b

(***************************************************************************)
(* Containers                                                              *)
(***************************************************************************)
Files == {"fA", "fB"}
\* container info of three kinds of container: the native layout with 8-byte
\* addresses, a small-address file, and a connector with a large object token
ContInfos ==
    {[sizeof_addr |-> 8, token_size |-> 8, blob_id_size |-> 16],
     [sizeof_addr |-> 2, token_size |-> 16, blob_id_size |-> 1],
     [sizeof_addr |-> 4, token_size |-> 16, blob_id_size |-> 13]}

H5F_SIZEOF_ADDR(f) == files[f].sizeof_addr

H5T_REF_OBJ_DISK_SIZE(f) == H5F_SIZEOF_ADDR(f)

H5HG_HEAP_ID_SIZE(f) == H5_SIZEOF_UINT32_T + H5F_SIZEOF_ADDR(f)

H5T_REF_DSETREG_DISK_SIZE(f) == H5HG_HEAP_ID_SIZE(f)

\* size reported by H5R__encode(NULL, &fixed_ref, NULL, &ref_encode_size, 0) for a
\* zeroed H5R_OBJECT2 reference: header, one byte of token size, the token
H5R__encode_size(token_size) == H5R_ENCODE_HEADER_SIZE + 1 + token_size

(***************************************************************************)
(* H5T__ref_set_loc                                                        *)
(***************************************************************************)
SetMemory_legacyKeepsTriple(d, f) ==
    LET d1 == [d EXCEPT !.loc = H5T_LOC_MEMORY, !.f = f]
    IN  IF d.opaque THEN
            [d1 EXCEPT !.size = H5T_REF_MEM_SIZE, !.prec = 8 * H5T_REF_MEM_SIZE,
                       !.getsize = "H5T__ref_mem_getsize",
                       !.read = "H5T__ref_mem_read",
                       !.write = "H5T__ref_mem_write"]
        ELSE IF d.rtype = H5R_OBJECT1 THEN
            [d1 EXCEPT !.size = H5T_REF_OBJ_MEM_SIZE, !.prec = 8 * H5T_REF_OBJ_MEM_SIZE]
        ELSE IF d.rtype = H5R_DATASET_REGION1 THEN
            [d1 EXCEPT !.size = H5T_REF_DSETREG_MEM_SIZE,
                       !.prec = 8 * H5T_REF_DSETREG_MEM_SIZE]
        ELSE d1

SetMemory(d, f) ==
    LET d1 == [d EXCEPT !.loc = H5T_LOC_MEMORY, !.f = f]
    IN  IF d.opaque THEN
            [d1 EXCEPT !.size = H5T_REF_MEM_SIZE, !.prec = 8 * H5T_REF_MEM_SIZE,
                       !.getsize = "H5T__ref_mem_getsize",
                       !.read = "H5T__ref_mem_read",
                       !.write = "H5T__ref_mem_write"]
        ELSE IF d.rtype = H5R_OBJECT1 THEN
            [d1 EXCEPT !.size = H5T_REF_OBJ_MEM_SIZE, !.prec = 8 * H5T_REF_OBJ_MEM_SIZE,
                       !.getsize = NULL, !.read = NULL, !.write = NULL]
        ELSE IF d.rtype = H5R_DATASET_REGION1 THEN
            [d1 EXCEPT !.size = H5T_REF_DSETREG_MEM_SIZE,
                       !.prec = 8 * H5T_REF_DSETREG_MEM_SIZE,
                       !.getsize = NULL, !.read = NULL, !.write = NULL]
        ELSE d1

LegacyDiskWrite_bound == "H5T__ref_disk_write"

LegacyDiskWrite == NULL

SetDiskObj(d1, f) ==
    [d1 EXCEPT !.size = H5T_REF_OBJ_DISK_SIZE(f), !.prec = 8 * H5T_REF_OBJ_DISK_SIZE(f),
               !.getsize = "H5T__ref_obj_disk_getsize",
               !.read = "H5T__ref_obj_disk_read",
               !.write = LegacyDiskWrite]

SetDiskDsetreg_addrOnly(d1, f) ==
    [d1 EXCEPT !.size = H5T_REF_OBJ_DISK_SIZE(f),
               !.prec = 8 * H5T_REF_OBJ_DISK_SIZE(f),
               !.getsize = "H5T__ref_dsetreg_disk_getsize",
               !.read = "H5T__ref_dsetreg_disk_read",
               !.write = NULL]

SetDiskDsetreg(d1, f) ==
    [d1 EXCEPT !.size = H5T_REF_DSETREG_DISK_SIZE(f),
               !.prec = 8 * H5T_REF_DSETREG_DISK_SIZE(f),
               !.getsize = "H5T__ref_dsetreg_disk_getsize",
               !.read = "H5T__ref_dsetreg_disk_read",
               !.write = LegacyDiskWrite]

GenericDiskSize_noHeader(cont_info, ref_encode_size) ==
    MAX(H5_SIZEOF_UINT32_T + cont_info.blob_id_size, ref_encode_size)

GenericDiskSize(cont_info, ref_encode_size) ==
    MAX(H5_SIZEOF_UINT32_T + H5R_ENCODE_HEADER_SIZE + cont_info.blob_id_size,
        ref_encode_size)

\* (uint8_t)cont_info.token_size
Uint8(x) == x % 256

\* ci_ok: H5F__get_cont_info succeeded; enc_ok: the H5R__encode probe succeeded
SetDisk(d, f, ci_ok, enc_ok) ==
    LET d1 == [d EXCEPT !.loc = H5T_LOC_DISK, !.f = f]
    IN  IF d.rtype = H5R_OBJECT1 THEN [dt |-> SetDiskObj(d1, f), ret |-> "TRUE"]
        ELSE IF d.rtype = H5R_DATASET_REGION1 THEN
            [dt |-> SetDiskDsetreg(d1, f), ret |-> "TRUE"]
        ELSE IF ~ci_ok THEN [dt |-> d1, ret |-> FAIL]
        ELSE IF ~enc_ok THEN [dt |-> d1, ret |-> FAIL]
        ELSE LET sz == GenericDiskSize(files[f], H5R__encode_size(Uint8(files[f].token_size)))
             IN  [dt |-> [d1 EXCEPT !.size = sz, !.prec = 8 * sz,
                                    !.getsize = "H5T__ref_disk_getsize",
                                    !.read = "H5T__ref_disk_read",
                                    !.write = "H5T__ref_disk_write"],
                  ret |-> "TRUE"]

SetBadloc_keepsWrite(d) ==
    [d EXCEPT !.loc = H5T_LOC_BADLOC, !.f = NULL, !.getsize = NULL, !.read = NULL]

SetBadloc(d) ==
    [d EXCEPT !.loc = H5T_LOC_BADLOC, !.f = NULL,
              !.getsize = NULL, !.read = NULL, !.write = NULL]

SameLocation_otherFile(d, f, loc) == loc = d.loc /\ f # d.f

SameLocation(d, f, loc) == loc = d.loc /\ f = d.f

H5T__ref_set_loc_defaultResets(d, f, loc, ci_ok, enc_ok) ==
    IF SameLocation(d, f, loc) THEN [dt |-> d, ret |-> "FALSE"]
    ELSE IF loc = H5T_LOC_MEMORY THEN [dt |-> SetMemory(d, f), ret |-> "TRUE"]
    ELSE IF loc = H5T_LOC_DISK THEN SetDisk(d, f, ci_ok, enc_ok)
    ELSE [dt |-> SetBadloc(d), ret |-> IF loc = H5T_LOC_BADLOC THEN "TRUE" ELSE FAIL]

H5T__ref_set_loc(d, f, loc, ci_ok, enc_ok) ==
    IF SameLocation(d, f, loc) THEN [dt |-> d, ret |-> "FALSE"]
    ELSE IF loc = H5T_LOC_MEMORY THEN [dt |-> SetMemory(d, f), ret |-> "TRUE"]
    ELSE IF loc = H5T_LOC_DISK THEN SetDisk(d, f, ci_ok, enc_ok)
    ELSE IF loc = H5T_LOC_BADLOC THEN [dt |-> SetBadloc(d), ret |-> "TRUE"]
    ELSE [dt |-> d, ret |-> FAIL]

\* sizeof(haddr_t): the width of an address in memory, whatever the file's is
sizeof_haddr_t == 8

\* src_f, src_buf, src_size, dst_f and dst_copy are all unused
H5T__ref_obj_disk_getsize(src_f) == sizeof_haddr_t

(***************************************************************************)
(* The reference datatypes the library creates: the opaque H5T_STD_REF     *)
(* (rtype one of the revised kinds) and the two deprecated fixed layouts.  *)
(***************************************************************************)
MemSizeOf(rtype) ==
    IF rtype = H5R_OBJECT1 THEN H5T_REF_OBJ_MEM_SIZE
    ELSE IF rtype = H5R_DATASET_REGION1 THEN H5T_REF_DSETREG_MEM_SIZE
    ELSE H5T_REF_MEM_SIZE

RefTypes == H5R_OBJECT1 .. H5R_ATTR

IsLegacy(d) == d.rtype \in {H5R_OBJECT1, H5R_DATASET_REGION1}

NewRefType(rtype) ==
    [rtype |-> rtype, opaque |-> (rtype \notin {H5R_OBJECT1, H5R_DATASET_REGION1}),
     loc |-> H5T_LOC_BADLOC, f |-> NULL,
     size |-> MemSizeOf(rtype), prec |-> 8 * MemSizeOf(rtype),
     getsize |-> NULL, read |-> NULL, write |-> NULL]

NoCall == [f |-> NULL, loc |-> H5T_LOC_BADLOC, ret |-> "none", pre |-> NULL]
NoPrev == [f |-> NULL, loc |-> H5T_LOC_BADLOC, ret |-> "none"]

DoSetLoc(f, loc, ci_ok, enc_ok) ==
    LET r == H5T__ref_set_loc(dt, f, loc, ci_ok, enc_ok)
    IN  /\ dt' = r.dt
        /\ call' = [f |-> f, loc |-> loc, ret |-> r.ret, pre |-> dt]
        /\ prevcall' = [f |-> call.f, loc |-> call.loc, ret |-> call.ret]
        /\ UNCHANGED <<files, diskVars, auxVars, rd>>

\* HDassert(NULL == f) for H5T_LOC_MEMORY
SetLocMemory ==
    /\ DoSetLoc(NULL, H5T_LOC_MEMORY, TRUE, TRUE)

\* HDassert(f) for H5T_LOC_DISK
SetLocDisk ==
    /\ \E f \in Files, ci_ok \in BOOLEAN, enc_ok \in BOOLEAN :
           DoSetLoc(f, H5T_LOC_DISK, ci_ok, enc_ok)

SetLocBadloc ==
    /\ \E f \in Files \cup {NULL} : DoSetLoc(f, H5T_LOC_BADLOC, TRUE, TRUE)

\* a location outside the valid range of the enumeration
SetLocInvalid ==
    /\ \E f \in Files \cup {NULL}, loc \in {H5T_LOC_MAXLOC, H5T_LOC_MAXLOC + 1} :
           DoSetLoc(f, loc, TRUE, TRUE)

(***************************************************************************)
(* Byte encodings (little-endian, as UINT32ENCODE and H5F_addr_encode)     *)
(***************************************************************************)
RECURSIVE EncodeLE(_, _)
EncodeLE(v, n) == IF n = 0 THEN <<>> ELSE <<v % 256>> \o EncodeLE(v \div 256, n - 1)

RECURSIVE DecodeLE(_)
DecodeLE(bytes) == IF bytes = <<>> THEN 0 ELSE Head(bytes) + 256 * DecodeLE(Tail(bytes))

UINT32ENCODE(v) == EncodeLE(v, H5_SIZEOF_UINT32_T)
UINT32DECODE(bytes, at) == DecodeLE(SubSeq(bytes, at, at + H5_SIZEOF_UINT32_T - 1))
H5F_addr_encode(n, addr) == EncodeLE(addr, n)
H5F_addr_decode(n, bytes, at) == DecodeLE(SubSeq(bytes, at, at + n - 1))

Zeros(n) == [i \in 1 .. n |-> 0]

\* dst with the bytes of part written from (1-based) position at
Overwrite(dst, at, part) ==
    [i \in 1 .. Len(dst) |-> IF i >= at /\ i < at + Len(part) THEN part[i - at + 1] ELSE dst[i]]

(***************************************************************************)
(* The global heap behind the native blob callbacks                        *)
(***************************************************************************)
EmptyHeap == [h \in {} |-> <<>>]

HeapAddrs == {16, 258}

\* H5HG_insert: fails, or stores the object under a heap ID not in use
NextIdx(hp, a) == 1 + Cardinality({k \in DOMAIN hp : k[1] = a})

FreshIds(hp) == {<<a, NextIdx(hp, a)>> : a \in HeapAddrs} \ DOMAIN hp

H5HG_insert(hp, obj, hobjid) == [k \in DOMAIN hp \cup {hobjid} |-> IF k = hobjid THEN obj ELSE hp[k]]

\* H5HG_remove: fails (rm_ok false), or frees the object; for a heap ID the heap
\* does not hold nothing is freed, whichever result is reported
H5HG_remove(hp, hobjid, rm_ok) ==
    IF ~rm_ok THEN [ret |-> FAIL, heap |-> hp]
    ELSE [ret |-> SUCCEED, heap |-> [k \in DOMAIN hp \ {hobjid} |-> hp[k]]]

(***************************************************************************)
(* Native blob callbacks                                                   *)
(***************************************************************************)
\* the bytes H5VL__native_blob_put writes at _id
BlobId(n, seq_len, hobjid) ==
    UINT32ENCODE(seq_len) \o H5F_addr_encode(n, hobjid[1]) \o UINT32ENCODE(hobjid[2])

BlobIdLen(n) == H5_SIZEOF_UINT32_T + n + H5_SIZEOF_UINT32_T

\* ins: whether H5HG_insert succeeds, and the heap ID it then returns
H5VL__native_blob_put_encodeFirst(hp, blob, seq_len, n, ins) ==
    IF ~ins.ok THEN [ret |-> FAIL, heap |-> hp, id |-> BlobId(n, seq_len, ins.hobjid),
                     heapops |-> <<>>]
    ELSE [ret |-> SUCCEED, heap |-> H5HG_insert(hp, blob, ins.hobjid),
          id |-> BlobId(n, seq_len, ins.hobjid),
          heapops |-> <<[op |-> "insert", hobjid |-> ins.hobjid]>>]
H5VL__native_blob_put(hp, blob, seq_len, n, ins) ==
    IF ~ins.ok THEN [ret |-> FAIL, heap |-> hp, id |-> <<>>, heapops |-> <<>>]
    ELSE [ret |-> SUCCEED, heap |-> H5HG_insert(hp, blob, ins.hobjid),
          id |-> BlobId(n, seq_len, ins.hobjid),
          heapops |-> <<[op |-> "insert", hobjid |-> ins.hobjid]>>]

DeleteSkipsEmpty(seq_len) == seq_len > 0

\* H5VL_BLOB_DELETE on the bytes at id
H5VL__native_blob_delete(hp, id, n, rm_ok) ==
    LET seq_len == UINT32DECODE(id, 1)
        addr == H5F_addr_decode(n, id, 1 + H5_SIZEOF_UINT32_T)
        idx == UINT32DECODE(id, 1 + H5_SIZEOF_UINT32_T + n)
    IN  IF DeleteSkipsEmpty(seq_len) /\ addr > 0 THEN
            LET r == H5HG_remove(hp, <<addr, idx>>, rm_ok)
            IN  [ret |-> r.ret, heap |-> r.heap,
                 heapops |-> <<[op |-> "remove", hobjid |-> <<addr, idx>>]>>]
        ELSE [ret |-> SUCCEED, heap |-> hp, heapops |-> <<>>]

\* memory from the start of dst after len(part) bytes are copied to (1-based)
\* position at; bytes beyond Len(dst) are the memory that follows the buffer
H5MM_memcpy(dst, at, part) ==
    [i \in 1 .. MAX(Len(dst), at - 1 + Len(part)) |->
        IF i >= at /\ i < at + Len(part) THEN part[i - at + 1] ELSE dst[i]]

\* H5HG_read(f, &hobjid, buf, NULL): fails, or copies the whole object to buf
H5HG_read(hp, hobjid, buf, rd_ok) ==
    IF rd_ok /\ hobjid \in DOMAIN hp
    THEN [ret |-> SUCCEED, buf |-> H5MM_memcpy(buf, 1, hp[hobjid])]
    ELSE [ret |-> FAIL, buf |-> buf]

GetReadsHeap_always(addr) == TRUE
GetReadsHeap(addr) == addr > 0

\* H5VL__native_blob_get on the bytes at id, into buf
H5VL__native_blob_get(hp, id, n, buf, rd_ok) ==
    LET addr == H5F_addr_decode(n, id, 1 + H5_SIZEOF_UINT32_T)
        idx == UINT32DECODE(id, 1 + H5_SIZEOF_UINT32_T + n)
    IN  IF GetReadsHeap(addr) THEN
            LET r == H5HG_read(hp, <<addr, idx>>, buf, rd_ok)
            IN  [ret |-> r.ret, buf |-> r.buf,
                 heapops |-> <<[op |-> "read", hobjid |-> <<addr, idx>>]>>]
        ELSE [ret |-> SUCCEED, buf |-> buf, heapops |-> <<>>]

\* H5VL_BLOB_GETSIZE: the sequence length at the start of id
H5VL__native_blob_getsize_afterLength(id) == UINT32DECODE(id, 1 + H5_SIZEOF_UINT32_T)
H5VL__native_blob_getsize(id) == UINT32DECODE(id, 1)

\* H5VL_BLOB_ISNULL: the heap address follows the sequence length
IsnullAddrOffset_header == H5R_ENCODE_HEADER_SIZE
IsnullAddrOffset == H5_SIZEOF_UINT32_T

H5VL__native_blob_isnull(id, n) == H5F_addr_decode(n, id, 1 + IsnullAddrOffset) = 0

\* H5VL_BLOB_SETNULL: the bytes written at id
H5VL__native_blob_setnull(n) == UINT32ENCODE(0) \o H5F_addr_encode(n, 0) \o UINT32ENCODE(0)

SpecificTypes == {"GETSIZE", "ISNULL", "SETNULL", "DELETE", "OTHER"}

\* H5VL__native_blob_specific: id is the caller's buffer, size and isnull the
\* caller's output arguments
H5VL__native_blob_specific(hp, id, n, specific_type, size, isnull, rm_ok) ==
    LET same == [ret |-> SUCCEED, heap |-> hp, id |-> id, size |-> size,
                 isnull |-> isnull, heapops |-> <<>>]
    IN  CASE specific_type = "GETSIZE" ->
                [same EXCEPT !.size = H5VL__native_blob_getsize(id)]
          [] specific_type = "ISNULL" ->
                [same EXCEPT !.isnull = H5VL__native_blob_isnull(id, n)]
          [] specific_type = "SETNULL" ->
                [same EXCEPT !.id = Overwrite(id, 1, H5VL__native_blob_setnull(n))]
          [] specific_type = "DELETE" ->
                LET r == H5VL__native_blob_delete(hp, id, n, rm_ok)
                IN  [same EXCEPT !.ret = r.ret, !.heap = r.heap, !.heapops = r.heapops]
          [] OTHER -> [same EXCEPT !.ret = FAIL]

(***************************************************************************)
(* H5T__ref_disk_write                                                     *)
(***************************************************************************)
\* offset of the blob ID in the background record, as the write skips to it
BgBlobOffset == H5_SIZEOF_UINT32_T

DstBlobOffset_asBackground == H5_SIZEOF_UINT32_T

\* offset of the blob ID in the destination record
DstBlobOffset == H5R_ENCODE_HEADER_SIZE + H5_SIZEOF_UINT32_T

DiskRecordSize(n) == DstBlobOffset + BlobIdLen(n)

DeleteCall(hp, bg, n, rm_ok) ==
    LET id == SubSeq(bg, BgBlobOffset + 1, BgBlobOffset + BlobIdLen(n))
        r == H5VL__native_blob_delete(hp, id, n, rm_ok)
    IN  [op |-> "DELETE", off |-> BgBlobOffset, id |-> id, ret |-> r.ret,
         heap |-> r.heap, heapops |-> r.heapops]

PutCall(hp, blob, seq_len, n, ins) ==
    LET r == H5VL__native_blob_put(hp, blob, seq_len, n, ins)
    IN  [op |-> "put", off |-> DstBlobOffset, id |-> r.id, ret |-> r.ret,
         heap |-> r.heap, heapops |-> r.heapops]

WriteCalls_putFirst(hp, payload, bg, n, seq_len, rm_ok, ins) ==
    LET put == PutCall(hp, payload, seq_len, n, ins)
    IN  IF bg = <<>> \/ put.ret = FAIL THEN <<put>>
        ELSE <<[DeleteCall(put.heap, bg, n, rm_ok) EXCEPT !.ret = SUCCEED], put>>

\* the blob-store calls of one write, in order
WriteCalls(hp, payload, bg, n, seq_len, rm_ok, ins) ==
    IF bg = <<>> THEN <<PutCall(hp, payload, seq_len, n, ins)>>
    ELSE LET del == DeleteCall(hp, bg, n, rm_ok)
         IN  IF del.ret = FAIL THEN <<del>>
             ELSE <<del, PutCall(del.heap, payload, seq_len, n, ins)>>

Last(seq) == seq[Len(seq)]

H5T__ref_disk_write(hp, src, dst, bg, n, seq_len, rm_ok, ins) ==
    LET payload == SubSeq(src, H5R_ENCODE_HEADER_SIZE + 1, Len(src))
        calls == WriteCalls(hp, payload, bg, n, seq_len, rm_ok, ins)
        final == Last(calls)
        hdr == Overwrite(Overwrite(dst, 1, SubSeq(src, 1, H5R_ENCODE_HEADER_SIZE)),
                         H5R_ENCODE_HEADER_SIZE + 1, UINT32ENCODE(Len(payload)))
    IN  IF final.op = "DELETE" THEN
            [ret |-> FAIL, heap |-> final.heap, dst |-> dst, calls |-> calls]
        ELSE IF final.ret = FAIL THEN
            [ret |-> FAIL, heap |-> final.heap, dst |-> hdr, calls |-> calls]
        ELSE [ret |-> SUCCEED, heap |-> final.heap,
              dst |-> Overwrite(hdr, DstBlobOffset + 1, final.id), calls |-> calls]

(***************************************************************************)
(* Writes to one record of a file                                          *)
(***************************************************************************)
MaxWrites == 2

SizeofAddrs == {2, 8}
H5R_IS_EXTERNAL == 1

\* encoded references: kind, flags, then the bytes that go to the blob
Sources == {<<H5R_OBJECT2, 0, 7>>, <<H5R_DATASET_REGION2, H5R_IS_EXTERNAL, 7, 9>>}

\* a previous record laid out as the write reads it: length, then the blob ID
BareRecord(n, hobjid, len) ==
    UINT32ENCODE(len) \o BlobId(n, len, hobjid) \o Zeros(H5R_ENCODE_HEADER_SIZE)

NoRead == [dst_size |-> 0, ret |-> "none", err |-> "none", dst |-> <<>>,
           got |-> FALSE, size |-> 0]

\* bg is <<>> when bg_buf is NULL
NoWrite == [ret |-> "none", calls |-> <<>>, chain |-> FALSE]

DoWrite(src, bg, bgkind, seq_len, rm_ok, ins) ==
    LET r == H5T__ref_disk_write(heap, src, dst_buf, bg, sizeof_addr, seq_len, rm_ok, ins)
    IN  /\ nwrites < MaxWrites
        /\ nwrites' = nwrites + 1
        /\ heap' = r.heap
        /\ dst_buf' = r.dst
        /\ wr' = [src |-> src, bg |-> bg, bgkind |-> bgkind, ret |-> r.ret,
                  calls |-> r.calls, heap0 |-> heap, dst0 |-> dst_buf,
                  prev |-> [ret |-> wr.ret, calls |-> wr.calls],
                  chain |-> /\ r.ret = SUCCEED
                            /\ bgkind \in {"NULL", "record"}
                            /\ nwrites > 0 => (wr.chain /\ bgkind = "record")]
        /\ rd' = NoRead
        /\ UNCHANGED <<sizeof_addr, locVars, auxVars>>

Inserts == {[ok |-> FALSE, hobjid |-> <<0, 0>>]}
               \cup {[ok |-> TRUE, hobjid |-> h] : h \in FreshIds(heap)}

\* a first write of the record: no background buffer
WriteFresh ==
    \E src \in Sources, ins \in Inserts :
        DoWrite(src, <<>>, "NULL", Len(src) - H5R_ENCODE_HEADER_SIZE, TRUE, ins)

\* an overwrite: the background buffer holds the record as it is on disk
WriteOver ==
    \E src \in Sources, ins \in Inserts, rm_ok \in BOOLEAN, as_len \in BOOLEAN :
        DoWrite(src, dst_buf, "record",
                IF as_len THEN Len(src) - H5R_ENCODE_HEADER_SIZE ELSE 0, rm_ok, ins)

\* an overwrite whose background buffer has the blob ID right after the length
WriteOverBare ==
    \E src \in Sources, ins \in Inserts, rm_ok \in BOOLEAN, old \in DOMAIN heap :
        DoWrite(src, BareRecord(sizeof_addr, old, Len(heap[old])), "bare",
                Len(src) - H5R_ENCODE_HEADER_SIZE, rm_ok, ins)

(***************************************************************************)
(* H5T__ref_disk_getsize                                                   *)
(***************************************************************************)
\* flags & bit, for a single-bit mask
FlagSet(flags, bit) == (flags \div bit) % 2 = 1

\* ref_type <= H5R_BADTYPE || ref_type >= H5R_MAXTYPE, negated
ValidRefType_offByOne(ref_type) == ref_type > H5R_BADTYPE /\ ref_type <= H5R_MAXTYPE
ValidRefType(ref_type) == ref_type > H5R_BADTYPE /\ ref_type < H5R_MAXTYPE

\* the test that selects the direct copy of the record
DirectCopy_anyKind(ref_type, flags) == ~FlagSet(flags, H5R_IS_EXTERNAL)
DirectCopy(ref_type, flags) ==
    ~FlagSet(flags, H5R_IS_EXTERNAL) /\ ref_type = H5R_OBJECT2

\* src_buf is read from its first byte: type, flags, then the 32-bit length.
\* dst_copy is the caller's flag, assigned only on the direct-copy branch.
H5T__ref_disk_getsize(src_buf, src_size, dst_copy) ==
    LET ref_type == src_buf[1]
        flags == src_buf[2]
    IN  IF ~ValidRefType(ref_type)
        THEN [ret |-> 0, err |-> "BADVALUE", dst_copy |-> dst_copy]
        ELSE IF DirectCopy(ref_type, flags)
        THEN [ret |-> src_size, err |-> "none", dst_copy |-> TRUE]
        ELSE [ret |-> UINT32DECODE(src_buf, H5R_ENCODE_HEADER_SIZE + 1)
                          + H5R_ENCODE_HEADER_SIZE,
              err |-> "none", dst_copy |-> dst_copy]

\* first bytes of the records handed to H5T__ref_disk_getsize
TypeBytes == 0 .. 6 \cup {255}
FlagBytes == 0 .. 3
LengthFields == {<<0, 0, 0, 0>>, <<1, 0, 0, 0>>, <<2, 1, 0, 0>>, <<0, 0, 1, 0>>}
GetsizeInputs ==
    {[src_buf |-> <<t, fl>> \o len, src_size |-> DiskRecordSize(n), dst_copy |-> c] :
        t \in TypeBytes, fl \in FlagBytes, len \in LengthFields,
        n \in SizeofAddrs, c \in BOOLEAN}

NoResult == [ret |-> -1, err |-> "pending", dst_copy |-> FALSE]
NoGetsize == [in |-> [src_buf |-> <<>>, src_size |-> 0, dst_copy |-> FALSE],
              out |-> NoResult]

DiskGetsize ==
    /\ gs.out = NoResult
    /\ gs' = [gs EXCEPT !.out = H5T__ref_disk_getsize(gs.in.src_buf, gs.in.src_size,
                                                      gs.in.dst_copy)]
    /\ UNCHANGED <<locVars, diskVars, blobVars, rd, memVars>>

(***************************************************************************)
(* H5T__ref_disk_read                                                      *)
(***************************************************************************)
\* H5VL_blob_get(cls, blob_id, ctx, buf, &size) for the native connector: the
\* native get callback, and size set to the length of the blob retrieved
H5VL_blob_get(hp, id, n, mem, size, rd_ok) ==
    LET r == H5VL__native_blob_get(hp, id, n, mem, rd_ok)
        hobjid == IF r.heapops = <<>> THEN <<0, 0>> ELSE r.heapops[1].hobjid
    IN  [ret |-> r.ret, buf |-> r.buf,
         size |-> IF r.ret = SUCCEED /\ r.heapops # <<>> THEN Len(hp[hobjid]) ELSE size]

SizeChecked(dst_size, expected_size) == dst_size # expected_size

\* dst is the memory at dst_buf: dst_size bytes of the caller's buffer, and in
\* the result whatever was written behind them
H5T__ref_disk_read(hp, src, n, dst, dst_size, rd_ok) ==
    LET hdr == H5MM_memcpy(dst, 1, SubSeq(src, 1, H5R_ENCODE_HEADER_SIZE))
        expected_size == dst_size - H5R_ENCODE_HEADER_SIZE
        p == H5R_ENCODE_HEADER_SIZE + H5_SIZEOF_UINT32_T
        g == H5VL_blob_get(hp, SubSeq(src, p + 1, p + BlobIdLen(n)), n,
                           SubSeq(hdr, H5R_ENCODE_HEADER_SIZE + 1, Len(hdr)),
                           dst_size, rd_ok)
        out == SubSeq(hdr, 1, H5R_ENCODE_HEADER_SIZE) \o g.buf
    IN  IF g.ret = FAIL
        THEN [ret |-> FAIL, err |-> "CANTGET", dst |-> out, got |-> FALSE, size |-> g.size]
        ELSE IF SizeChecked(g.size, expected_size)
        THEN [ret |-> FAIL, err |-> "CANTDECODE", dst |-> out, got |-> TRUE, size |-> g.size]
        ELSE [ret |-> SUCCEED, err |-> "none", dst |-> out, got |-> TRUE, size |-> g.size]

\* sizes of the destination buffer: the sizes of the encoded references
ReadSizes == {Len(src) : src \in Sources}

\* a read of the record into a destination buffer of dst_size bytes
DiskRead ==
    /\ nwrites > 0
    /\ nwrites < MaxWrites
    /\ nwrites' = nwrites + 1
    /\ \E dst_size \in ReadSizes, rd_ok \in BOOLEAN :
        LET r == H5T__ref_disk_read(heap, dst_buf, sizeof_addr, Zeros(dst_size),
                                    dst_size, rd_ok)
        IN  rd' = [dst_size |-> dst_size, ret |-> r.ret, err |-> r.err,
                   dst |-> r.dst, got |-> r.got, size |-> r.size]
    /\ UNCHANGED <<sizeof_addr, heap, dst_buf, wr, locVars, auxVars>>

(***************************************************************************)
(* H5T__ref_mem_getsize and H5T__ref_mem_read                              *)
(***************************************************************************)
\* open files (H5F_t): two of them are opens of the same file and have one
\* H5F_shared_t, name is H5F_ACTUAL_NAME
OpenFiles == {[f |-> "fA", shared |-> "sA", name |-> <<65>>],
              [f |-> "fA2", shared |-> "sA", name |-> <<65>>],
              [f |-> "fB", shared |-> "sB", name |-> <<66, 66>>]}

NoFile == [f |-> NULL, shared |-> NULL, name |-> <<>>]

\* location identifiers a reference may hold: of an open file, of no VOL
\* object, of a VOL object without data
LocIds == {"idA", "idB", "idNone", "idNoData"}

\* H5VL_vol_object
H5VL_vol_object(loc_id) == IF loc_id = "idNone" THEN NULL ELSE loc_id

\* H5VL_object_data
H5VL_object_data(vol_obj) ==
    CASE vol_obj = "idA" -> CHOOSE o \in OpenFiles : o.f = "fA"
      [] vol_obj = "idB" -> CHOOSE o \in OpenFiles : o.f = "fB"
      [] OTHER -> NoFile

\* H5R__encode: the bytes of the encoded reference, <<>> when encoding fails.
\* Header (type, flags), the file name with its length when the external flag
\* is set, then the token and what follows it.
H5R__encode(filename, ref, flags) ==
    IF ~ref.encodable THEN <<>>
    ELSE <<ref.type, flags>>
            \o (IF FlagSet(flags, H5R_IS_EXTERNAL) THEN <<Len(filename)>> \o filename ELSE <<>>)
            \o ref.body

\* flags |= (src_f->shared != dst_f->shared) ? H5R_IS_EXTERNAL : 0
ExternalFlag_byHandle(src_f, dst_f) == IF src_f.f # dst_f.f THEN H5R_IS_EXTERNAL ELSE 0
ExternalFlag(src_f, dst_f) == IF src_f.shared # dst_f.shared THEN H5R_IS_EXTERNAL ELSE 0

\* the test that forces the encoding size to be computed again
Recalculate_ifExternal(flags, src_ref) == flags # 0
Recalculate(flags, src_ref) == flags # 0 \/ src_ref.encode_size = 0

\* the types for which the cached size allows a direct copy
CopyTypes_all == {H5R_OBJECT2, H5R_DATASET_REGION2, H5R_ATTR}
CopyTypes == {H5R_OBJECT2}

\* src_ref is const: the call leaves the reference as it is
RefAfterGetsize_cached(src_ref, size) == [src_ref EXCEPT !.encode_size = size]
RefAfterGetsize(src_ref, size) == src_ref

\* path tells which branch computed the size
H5T__ref_mem_getsize(src_ref, dst_f, dst_copy) ==
    LET vol_obj_file == H5VL_vol_object(src_ref.loc_id)
        src_f == H5VL_object_data(vol_obj_file)
        flags == ExternalFlag(src_f, dst_f)
        enc == H5R__encode(src_f.name, src_ref, flags)
        fail == [ret |-> 0, err |-> "BADTYPE", dst_copy |-> dst_copy, flags |-> 0,
                 path |-> "none", ref |-> src_ref]
    IN  IF vol_obj_file = NULL THEN fail
        ELSE IF src_f = NoFile THEN fail
        ELSE IF Recalculate(flags, src_ref) THEN
            IF enc = <<>>
            THEN [fail EXCEPT !.err = "CANTENCODE", !.flags = flags, !.path = "encode"]
            ELSE [ret |-> Len(enc), err |-> "none", dst_copy |-> dst_copy, flags |-> flags,
                  path |-> "encode", ref |-> RefAfterGetsize(src_ref, Len(enc))]
        ELSE [ret |-> src_ref.encode_size, err |-> "none",
              dst_copy |-> IF src_ref.type \in CopyTypes THEN TRUE ELSE dst_copy,
              flags |-> flags, path |-> "cached", ref |-> src_ref]

\* the flags H5T__ref_mem_read hands to H5R__encode
ReadFlags_none(src_f, dst_f) == 0
ReadFlags(src_f, dst_f) == ExternalFlag(src_f, dst_f)

\* dst is the memory at dst_buf; H5R__encode fails when the reference cannot
\* be encoded or the encoding does not fit in dst_size bytes.  The first two
\* error exits return 0.
H5T__ref_mem_read(src_ref, dst_f, dst, dst_size) ==
    LET vol_obj_file == H5VL_vol_object(src_ref.loc_id)
        src_f == H5VL_object_data(vol_obj_file)
        flags == ReadFlags(src_f, dst_f)
        enc == H5R__encode(src_f.name, src_ref, flags)
        bad == [ret |-> SUCCEED, err |-> "BADTYPE", dst |-> dst, flags |-> 0, n |-> 0]
    IN  IF vol_obj_file = NULL THEN bad
        ELSE IF src_f = NoFile THEN bad
        ELSE IF enc = <<>> \/ Len(enc) > dst_size
        THEN [ret |-> FAIL, err |-> "CANTENCODE", dst |-> dst, flags |-> flags, n |-> 0]
        ELSE [ret |-> SUCCEED, err |-> "none", dst |-> H5MM_memcpy(dst, 1, enc),
              flags |-> flags, n |-> Len(enc)]

\* references in memory: object, region and attribute references with their
\* token and what follows it; encode_size is 0 or the size cached when the
\* reference was created
Bodies == [t \in {H5R_OBJECT2, H5R_DATASET_REGION2, H5R_ATTR} |->
            CASE t = H5R_OBJECT2 -> <<1, 9>>
              [] t = H5R_DATASET_REGION2 -> <<1, 9, 5, 5>>
              [] OTHER -> <<1, 9, 3>>]

MakeRef(t, loc_id, encodable, cached) ==
    LET r == [type |-> t, loc_id |-> loc_id, body |-> Bodies[t],
              encodable |-> encodable, encode_size |-> 0]
    IN  IF cached THEN [r EXCEPT !.encode_size = Len(H5R__encode(<<>>, r, 0))] ELSE r

Refs == {MakeRef(t, l, e, c) : t \in DOMAIN Bodies, l \in LocIds, e \in BOOLEAN,
                               c \in BOOLEAN}

\* destination sizes: the header alone and the sizes an encoding can have
MemReadSizes(src_ref) ==
    {H5R_ENCODE_HEADER_SIZE} \cup
        {Len(H5R__encode(o.name, [src_ref EXCEPT !.encodable = TRUE], fl)) :
            o \in OpenFiles, fl \in {0, H5R_IS_EXTERNAL}}

NoQuery == [dst_f |-> NULL, dst_copy0 |-> FALSE, ret |-> -1, err |-> "pending",
            dst_copy |-> FALSE, flags |-> 0, path |-> "none"]
NoMemRead == [dst_f |-> NULL, dst_size |-> 0, ret |-> "none", err |-> "pending",
              dst |-> <<>>, flags |-> 0, n |-> 0]

MemGetsize ==
    /\ \E dst_f \in OpenFiles, dst_copy \in BOOLEAN :
        LET r == H5T__ref_mem_getsize(href, dst_f, dst_copy)
        IN  /\ href' = r.ref
            /\ mq' = [last |-> [dst_f |-> dst_f.f, dst_copy0 |-> dst_copy, ret |-> r.ret,
                                err |-> r.err, dst_copy |-> r.dst_copy, flags |-> r.flags,
                                path |-> r.path],
                      prev |-> mq.last]
    /\ UNCHANGED <<mr, idcount, mw, locVars, diskVars, gs, blobVars, rd>>

MemRead ==
    /\ \E dst_f \in OpenFiles, dst_size \in MemReadSizes(href) :
        LET r == H5T__ref_mem_read(href, dst_f, Zeros(dst_size), dst_size)
        IN  mr' = [dst_f |-> dst_f.f, dst_size |-> dst_size, ret |-> r.ret, err |-> r.err,
                   dst |-> r.dst, flags |-> r.flags, n |-> r.n]
    /\ UNCHANGED <<href, mq, idcount, mw, locVars, diskVars, gs, blobVars, rd>>

(***************************************************************************)
(* H5T__ref_mem_write                                                      *)
(***************************************************************************)
H5I_INVALID_HID == "idNone"

MaxRefs == 2

FileIds == {"idA", "idB"}

\* H5F__get_file_id(src_f, FALSE): fails, or returns the identifier of the file
\* with one more reference on it
H5F__get_file_id(cnt, src_f, ok) ==
    LET id == IF src_f.shared = "sA" THEN "idA" ELSE "idB"
    IN  IF ok THEN [loc_id |-> id, cnt |-> [cnt EXCEPT ![id] = @ + 1]]
        ELSE [loc_id |-> H5I_INVALID_HID, cnt |-> cnt]

\* H5R__set_loc_id(dst_ref, loc_id): fails, or stores the identifier in the
\* reference and takes a reference on it for the reference's lifetime
H5R__set_loc_id(cnt, ref, loc_id, ok) ==
    IF ok THEN [ret |-> SUCCEED, ref |-> [ref EXCEPT !.loc_id = loc_id],
                cnt |-> [cnt EXCEPT ![loc_id] = @ + 1]]
    ELSE [ret |-> FAIL, ref |-> ref, cnt |-> cnt]

\* H5I_dec_ref(loc_id): drops one reference; fails when there is none to drop
H5I_dec_ref(cnt, loc_id) ==
    IF cnt[loc_id] > 0 THEN [ret |-> SUCCEED, cnt |-> [cnt EXCEPT ![loc_id] = @ - 1]]
    ELSE [ret |-> FAIL, cnt |-> cnt]

\* the reference H5R__create_object, H5R__create_region or H5R__decode builds
\* from src_buf: without a location identifier, with a file name when the
\* encoding carries the external flag
Constructed(src_type, src_buf) ==
    LET blank == [type |-> H5R_OBJECT2, loc_id |-> H5I_INVALID_HID, filename |-> <<>>,
                  body |-> src_buf, encodable |-> TRUE, encode_size |-> 0]
    IN  CASE src_type = H5R_OBJECT1 -> blank
          [] src_type = H5R_DATASET_REGION1 -> [blank EXCEPT !.type = H5R_DATASET_REGION2]
          [] OTHER ->
                LET ext == FlagSet(src_buf[2], H5R_IS_EXTERNAL)
                    at == H5R_ENCODE_HEADER_SIZE + 1
                IN  [blank EXCEPT
                        !.type = src_buf[1],
                        !.filename = IF ext THEN SubSeq(src_buf, at + 1, at + src_buf[at])
                                     ELSE <<>>,
                        !.body = IF ext THEN SubSeq(src_buf, at + 1 + src_buf[at], Len(src_buf))
                                 ELSE SubSeq(src_buf, at, Len(src_buf)),
                        !.encode_size = Len(src_buf)]

\* HDmemset(dst_buf, 0, dst_size)
ZeroedRef == [type |-> 0, loc_id |-> "0", filename |-> <<>>, body |-> <<>>,
              encodable |-> TRUE, encode_size |-> 0]

\* the switch on src_type: the error it ends in, "none" when the reference is built.
\* made: the create or decode call succeeds; closed: H5S_close succeeds
SwitchError(src_type, made, closed) ==
    CASE src_type = H5R_OBJECT1 -> IF made THEN "none" ELSE "CANTCREATE"
      [] src_type = H5R_DATASET_REGION1 ->
            IF ~made THEN "CANTCREATE" ELSE IF ~closed THEN "CANTFREE" ELSE "none"
      [] src_type \in {H5R_OBJECT2, H5R_DATASET_REGION2, H5R_ATTR} ->
            IF made THEN "none" ELSE "CANTDECODE"
      [] OTHER -> "UNSUPPORTED"

\* the test at done: that guards H5I_dec_ref
ReleaseAtDone_onError(loc_id, ret) == loc_id # H5I_INVALID_HID /\ ret = FAIL
ReleaseAtDone(loc_id, ret) == loc_id # H5I_INVALID_HID

\* cnt: the reference counts; the result has the reference left at dst_buf
H5T__ref_mem_write(cnt, src_f, src_buf, src_type, made, closed, got, set) ==
    LET err1 == SwitchError(src_type, made, closed)
        built == IF made /\ err1 \in {"none", "CANTFREE"}
                 THEN Constructed(src_type, src_buf) ELSE ZeroedRef
        attach == err1 = "none" /\ built.filename = <<>>
        g == IF attach THEN H5F__get_file_id(cnt, src_f, got)
             ELSE [loc_id |-> H5I_INVALID_HID, cnt |-> cnt]
        st == IF attach /\ g.loc_id # H5I_INVALID_HID
              THEN H5R__set_loc_id(g.cnt, built, g.loc_id, set)
              ELSE [ret |-> SUCCEED, ref |-> built, cnt |-> g.cnt]
        err == IF err1 # "none" THEN err1
               ELSE IF attach /\ g.loc_id = H5I_INVALID_HID THEN "BADTYPE"
               ELSE IF st.ret = FAIL THEN "CANTSET" ELSE "none"
        ret == IF err = "none" THEN SUCCEED ELSE FAIL
        d == IF ReleaseAtDone(g.loc_id, ret) THEN H5I_dec_ref(st.cnt, g.loc_id)
             ELSE [ret |-> SUCCEED, cnt |-> st.cnt]
    IN  [ret |-> IF d.ret = FAIL THEN FAIL ELSE ret,
         err |-> IF err = "none" /\ d.ret = FAIL THEN "CANTDEC" ELSE err,
         ref |-> st.ref, cnt |-> d.cnt, loc_id |-> g.loc_id]

\* source buffers: a legacy address, and encodings with and without the
\* external flag
MemSources ==
    [t \in H5R_BADTYPE .. H5R_MAXTYPE |->
        IF t \in {H5R_OBJECT2, H5R_DATASET_REGION2, H5R_ATTR}
        THEN {H5R__encode(o.name, MakeRef(t, "idA", TRUE, FALSE), fl) :
                o \in OpenFiles, fl \in {0, H5R_IS_EXTERNAL}}
        ELSE {<<16, 0>>}]

NoMemWrite == [src_type |-> H5R_BADTYPE, src_f |-> NULL, ret |-> "none", err |-> "pending",
               loc_id |-> H5I_INVALID_HID, pre |-> [i \in FileIds |-> 0]]

MemWrite ==
    /\ \A i \in FileIds : idcount[i] < MaxRefs
    /\ \E src_type \in H5R_BADTYPE .. H5R_MAXTYPE, src_f \in OpenFiles,
          made \in BOOLEAN, closed \in BOOLEAN, got \in BOOLEAN, set \in BOOLEAN :
        \E src_buf \in MemSources[src_type] :
            LET r == H5T__ref_mem_write(idcount, src_f, src_buf, src_type,
                                        made, closed, got, set)
            IN  /\ href' = r.ref
                /\ idcount' = r.cnt
                /\ mw' = [src_type |-> src_type, src_f |-> src_f.f, ret |-> r.ret,
                          err |-> r.err, loc_id |-> r.loc_id, pre |-> idcount]
    /\ UNCHANGED <<mq, mr, locVars, diskVars, gs, blobVars, rd>>

(***************************************************************************)
(* The native blob callbacks on one blob ID buffer                         *)
(***************************************************************************)
MaxBlobs == 1

Blobs == {<<7>>, <<7, 9>>}

\* blob ID buffers a caller may hold: nil, nil with a stale length and index,
\* and IDs of heap objects that are not (or no longer) in the heap
BlobIdBuffers(n) ==
    {BlobId(n, seq_len, hobjid) :
        seq_len \in {0, 2}, hobjid \in {<<0, 0>>, <<0, 3>>, <<16, 1>>}}

NoBlobOp == [op |-> "none", prev |-> "none", ret |-> SUCCEED, size |-> 0,
             isnull |-> FALSE, heapops |-> <<>>, ok |-> TRUE, blob |-> <<>>,
             seq_len |-> 0, pre |-> [vl |-> <<>>, buf |-> <<>>, heap |-> EmptyHeap]]

Pre == [vl |-> vl, buf |-> get_buf, heap |-> heap]

BlobPut ==
    /\ Cardinality(DOMAIN heap) < MaxBlobs
    /\ \E blob \in Blobs, as_len \in BOOLEAN, ins \in Inserts :
        LET seq_len == IF as_len THEN Len(blob) ELSE 0
            r == H5VL__native_blob_put(heap, blob, seq_len, sizeof_addr, ins)
        IN  /\ heap' = r.heap
            /\ vl' = Overwrite(vl, 1, r.id)
            /\ bop' = [op |-> "put", prev |-> bop.op, ret |-> r.ret, size |-> 0,
                       isnull |-> FALSE, heapops |-> r.heapops, ok |-> ins.ok,
                       blob |-> blob, seq_len |-> seq_len, pre |-> Pre]
    /\ UNCHANGED <<get_buf, sizeof_addr, dst_buf, wr, nwrites, locVars, gs, rd, memVars>>

BlobGet ==
    /\ \E rd_ok \in BOOLEAN :
        LET r == H5VL__native_blob_get(heap, vl, sizeof_addr, get_buf, rd_ok)
        IN  /\ get_buf' = r.buf
            /\ bop' = [op |-> "get", prev |-> bop.op, ret |-> r.ret, size |-> 0,
                       isnull |-> FALSE, heapops |-> r.heapops, ok |-> rd_ok,
                       blob |-> <<>>, seq_len |-> 0, pre |-> Pre]
    /\ UNCHANGED <<vl, diskVars, locVars, gs, rd, memVars>>

BlobSpecific ==
    /\ \E specific_type \in SpecificTypes, rm_ok \in BOOLEAN :
        LET r == H5VL__native_blob_specific(heap, vl, sizeof_addr, specific_type,
                                            0, FALSE, rm_ok)
        IN  /\ heap' = r.heap
            /\ vl' = r.id
            /\ bop' = [op |-> specific_type, prev |-> bop.op, ret |-> r.ret,
                       size |-> r.size, isnull |-> r.isnull, heapops |-> r.heapops,
                       ok |-> rm_ok, blob |-> <<>>, seq_len |-> 0, pre |-> Pre]
    /\ UNCHANGED <<get_buf, sizeof_addr, dst_buf, wr, nwrites, locVars, gs, rd, memVars>>

\* H5VL__native_blob_optional does nothing and succeeds
BlobOptional ==
    /\ bop' = [op |-> "optional", prev |-> bop.op, ret |-> SUCCEED, size |-> 0,
               isnull |-> FALSE, heapops |-> <<>>, ok |-> TRUE, blob |-> <<>>, seq_len |-> 0,
               pre |-> Pre]
    /\ UNCHANGED <<vl, get_buf, diskVars, locVars, gs, rd, memVars>>

(***************************************************************************)
(* Initial states and specifications                                       *)
(***************************************************************************)
GetsizeIdle == gs = NoGetsize

BlobIdle == vl = <<>> /\ get_buf = <<>> /\ bop = NoBlobOp

ReadIdle == rd = NoRead

MemIdle ==
    /\ href = MakeRef(H5R_OBJECT2, "idNone", TRUE, FALSE)
    /\ mq = [last |-> NoQuery, prev |-> NoQuery]
    /\ mr = NoMemRead
    /\ idcount = [i \in FileIds |-> 0]
    /\ mw = NoMemWrite

LocIdle ==
    /\ files = [f \in Files |-> [sizeof_addr |-> 8, token_size |-> 8, blob_id_size |-> 16]]
    /\ dt = NewRefType(H5R_OBJECT2)
    /\ call = NoCall
    /\ prevcall = NoPrev

InitDisk ==
    /\ sizeof_addr \in SizeofAddrs
    /\ heap = EmptyHeap
    /\ dst_buf = Zeros(DiskRecordSize(sizeof_addr))
    /\ wr = NoWrite
    /\ nwrites = 0
    /\ LocIdle
    /\ GetsizeIdle
    /\ BlobIdle
    /\ ReadIdle
    /\ MemIdle

NextDisk == WriteFresh \/ WriteOver \/ WriteOverBare \/ DiskRead

SpecDisk == InitDisk /\ [][NextDisk]_vars

DiskIdle ==
    /\ sizeof_addr \in {n \in SizeofAddrs : \A m \in SizeofAddrs : n >= m}
    /\ heap = EmptyHeap
    /\ dst_buf = <<>>
    /\ wr = NoWrite
    /\ nwrites = 0

InitLoc ==
    /\ files \in [Files -> ContInfos]
    /\ dt \in {NewRefType(t) : t \in RefTypes}
    /\ call = NoCall
    /\ prevcall = NoPrev
    /\ DiskIdle
    /\ GetsizeIdle
    /\ BlobIdle
    /\ ReadIdle
    /\ MemIdle

NextLoc == SetLocMemory \/ SetLocDisk \/ SetLocBadloc \/ SetLocInvalid

SpecLoc == InitLoc /\ [][NextLoc]_vars

InitGetsize ==
    /\ gs \in {[in |-> i, out |-> NoResult] : i \in GetsizeInputs}
    /\ LocIdle
    /\ DiskIdle
    /\ BlobIdle
    /\ ReadIdle
    /\ MemIdle

NextGetsize == DiskGetsize

SpecGetsize == InitGetsize /\ [][NextGetsize]_vars

InitBlob ==
    /\ sizeof_addr \in SizeofAddrs
    /\ heap = EmptyHeap
    /\ vl \in BlobIdBuffers(sizeof_addr)
    /\ get_buf = Zeros(H5R_ENCODE_HEADER_SIZE)
    /\ bop = NoBlobOp
    /\ dst_buf = <<>>
    /\ wr = NoWrite
    /\ nwrites = 0
    /\ LocIdle
    /\ GetsizeIdle
    /\ ReadIdle
    /\ MemIdle

NextBlob == BlobPut \/ BlobGet \/ BlobSpecific \/ BlobOptional

SpecBlob == InitBlob /\ [][NextBlob]_vars

InitMem ==
    /\ href \in Refs
    /\ mq = [last |-> NoQuery, prev |-> NoQuery]
    /\ mr = NoMemRead
    /\ idcount = [i \in FileIds |-> 0]
    /\ mw = NoMemWrite
    /\ LocIdle
    /\ DiskIdle
    /\ GetsizeIdle
    /\ BlobIdle
    /\ ReadIdle

NextMem == MemGetsize \/ MemRead

SpecMem == InitMem /\ [][NextMem]_vars

InitMemWrite ==
    /\ href = ZeroedRef
    /\ mq = [last |-> NoQuery, prev |-> NoQuery]
    /\ mr = NoMemRead
    /\ idcount \in [FileIds -> {0, 1}]
    /\ mw = NoMemWrite
    /\ LocIdle
    /\ DiskIdle
    /\ GetsizeIdle
    /\ BlobIdle
    /\ ReadIdle

NextMemWrite == MemWrite

SpecMemWrite == InitMemWrite /\ [][NextMemWrite]_vars

(***************************************************************************)
(* Properties of H5T__ref_set_loc (SpecLoc)                                *)
(***************************************************************************)
Called == call.ret # "none"
Changed == Called /\ call.ret = "TRUE"
ValidLocs == {H5T_LOC_BADLOC, H5T_LOC_MEMORY, H5T_LOC_DISK}
Triple(d) == <<d.getsize, d.read, d.write>>

\* a call whose (container, location) equals the descriptor's (container, location)
MatchingCall == Called /\ call.loc = call.pre.loc /\ call.f = call.pre.f
NoOpFrame == MatchingCall => (call.ret = "FALSE" /\ dt = call.pre)
Repeated == Called /\ prevcall.ret # "none" /\ call.f = prevcall.f /\ call.loc = prevcall.loc

UndeterminedCall == Called /\ call.loc = H5T_LOC_BADLOC /\ ~MatchingCall

\* C5 as stated: an Undetermined call that does not match the current state sets
\* the location to Undetermined, clears container, width and the three functions,
\* and returns "changed".
C5_AsStated ==
    UndeterminedCall =>
        /\ call.ret = "TRUE"
        /\ dt.loc = H5T_LOC_BADLOC /\ dt.f = NULL
        /\ Triple(dt) = <<NULL, NULL, NULL>>
        /\ dt.size = 0

\* C5 amended: an Undetermined call that does not match the current state sets the
\* location to Undetermined, clears the container and the three functions, returns
\* "changed", and leaves the width (size and precision) as it was.
C5_Undetermined ==
    UndeterminedCall =>
        /\ call.ret = "TRUE"
        /\ dt.loc = H5T_LOC_BADLOC /\ dt.f = NULL
        /\ Triple(dt) = <<NULL, NULL, NULL>>
        /\ dt.size = call.pre.size /\ dt.prec = call.pre.prec

\* a disk-bound generic descriptor is reset to Undetermined
C5_Witness ==
    /\ UndeterminedCall /\ call.pre.loc = H5T_LOC_DISK
    /\ call.pre.write = "H5T__ref_disk_write" /\ dt.write = NULL

BlobRecordSize(f) == 4 + H5R_ENCODE_HEADER_SIZE + files[f].blob_id_size
MinEncodeSize(f) == H5R__encode_size(files[f].token_size)

\* C6: a successful Disk call on a generic descriptor sets the width to the larger
\* of 4 + header + blob-id width and the probed minimum encode size, and binds the
\* disk getsize, read and write.
C6_GenericDisk ==
    (Changed /\ call.loc = H5T_LOC_DISK /\ ~IsLegacy(dt)) =>
        /\ dt.size >= BlobRecordSize(call.f)
        /\ dt.size >= MinEncodeSize(call.f)
        /\ dt.size \in {BlobRecordSize(call.f), MinEncodeSize(call.f)}
        /\ Triple(dt) = <<"H5T__ref_disk_getsize", "H5T__ref_disk_read", "H5T__ref_disk_write">>

\* the blob record is what decides the width: it is larger than the encode probe
C6_Witness ==
    /\ Changed /\ call.loc = H5T_LOC_DISK /\ ~IsLegacy(dt)
    /\ BlobRecordSize(call.f) > MinEncodeSize(call.f)
    /\ dt.size = BlobRecordSize(call.f)

\* C7: a Disk call on a legacy object (region) descriptor binds the legacy object
\* (region) getsize and read, no write, and the file's address (heap ID) width.
C7_LegacyDisk ==
    (Changed /\ call.loc = H5T_LOC_DISK /\ IsLegacy(dt)) =>
        /\ dt.write = NULL
        /\ dt.rtype = H5R_OBJECT1 =>
              /\ dt.getsize = "H5T__ref_obj_disk_getsize"
              /\ dt.read = "H5T__ref_obj_disk_read"
              /\ dt.size = files[call.f].sizeof_addr
        /\ dt.rtype = H5R_DATASET_REGION1 =>
              /\ dt.getsize = "H5T__ref_dsetreg_disk_getsize"
              /\ dt.read = "H5T__ref_dsetreg_disk_read"
              /\ dt.size = files[call.f].sizeof_addr + 4

\* a legacy region descriptor bound to a file
C7_Witness ==
    /\ Changed /\ call.loc = H5T_LOC_DISK /\ dt.rtype = H5R_DATASET_REGION1
    /\ dt.size = files[call.f].sizeof_addr + 4

\* C8: a Memory call sets the container to null and the width of the sub-kind; the
\* opaque sub-kind gets the memory getsize, read and write, the two legacy
\* sub-kinds get no function at all, whatever was bound before.
C8_Memory ==
    (Changed /\ call.loc = H5T_LOC_MEMORY) =>
        /\ dt.loc = H5T_LOC_MEMORY /\ dt.f = NULL
        /\ dt.opaque =>
              /\ dt.size = H5T_REF_MEM_SIZE
              /\ Triple(dt) = <<"H5T__ref_mem_getsize", "H5T__ref_mem_read", "H5T__ref_mem_write">>
        /\ dt.rtype = H5R_OBJECT1 =>
              dt.size = H5T_REF_OBJ_MEM_SIZE /\ Triple(dt) = <<NULL, NULL, NULL>>
        /\ dt.rtype = H5R_DATASET_REGION1 =>
              dt.size = H5T_REF_DSETREG_MEM_SIZE /\ Triple(dt) = <<NULL, NULL, NULL>>

\* a legacy object descriptor that had the disk read bound is moved to memory
C8_Witness ==
    /\ Changed /\ call.loc = H5T_LOC_MEMORY /\ dt.rtype = H5R_OBJECT1
    /\ call.pre.read = "H5T__ref_obj_disk_read" /\ dt.read = NULL

C10_LegacyNoWrite == IsLegacy(dt) => dt.write = NULL

\* a legacy descriptor bound to a file, then to memory
C10_Witness ==
    /\ IsLegacy(dt) /\ Called /\ dt.loc = H5T_LOC_MEMORY
    /\ call.pre.loc = H5T_LOC_DISK /\ call.pre.read # NULL

(***************************************************************************)
(* Properties of H5T__ref_disk_write (SpecDisk)                            *)
(***************************************************************************)
Written == wr.ret # "none"
Ops(calls) == [i \in 1 .. Len(calls) |-> calls[i].op]
HasBg == Written /\ wr.bgkind # "NULL"

\* C2 as stated: with a background buffer the blob store receives exactly one
\* DELETE and then exactly one put; without one it receives exactly one put.
C2_AsStated ==
    Written => Ops(wr.calls) = IF HasBg THEN <<"DELETE", "put">> ELSE <<"put">>

\* C2 amended: with a background buffer the blob store first receives exactly one
\* DELETE; if that DELETE succeeds it then receives exactly one put, and if it
\* fails it receives no put and the write fails.  Without a background buffer it
\* receives no DELETE and exactly one put.
C2_DeleteThenPut ==
    Written =>
        /\ ~HasBg => Ops(wr.calls) = <<"put">>
        /\ HasBg =>
              /\ wr.calls[1].op = "DELETE"
              /\ wr.calls[1].ret = SUCCEED => Ops(wr.calls) = <<"DELETE", "put">>
              /\ wr.calls[1].ret = FAIL => (Ops(wr.calls) = <<"DELETE">> /\ wr.ret = FAIL)

\* an overwrite of the record on disk that deleted and then stored
C2_Witness ==
    /\ HasBg /\ wr.bgkind = "record" /\ wr.ret = SUCCEED
    /\ Ops(wr.calls) = <<"DELETE", "put">>

\* the background buffer is the record the preceding, successful write produced
OverwritesOwnRecord ==
    /\ HasBg /\ wr.bgkind = "record"
    /\ wr.prev.ret = SUCCEED /\ wr.bg = wr.dst0

\* C3: overwriting the record produced by the preceding write hands DELETE the blob
\* ID that write's put stored (same offset, same bytes), and a chain of successful
\* writes to one record leaves at most one blob in the heap.
C3_AsStated ==
    /\ OverwritesOwnRecord =>
           /\ wr.calls[1].off = Last(wr.prev.calls).off
           /\ wr.calls[1].id = Last(wr.prev.calls).id
    /\ (Written /\ wr.chain) => Cardinality(DOMAIN heap) <= 1

ViaBlob(src) ==
    /\ ValidRefType(src[1])
    /\ ~DirectCopy(src[1], src[2])

\* the last write stored its source in the record, and a read asked for it back
\* into a buffer of the size of that source
Stored == Written /\ wr.ret = SUCCEED /\ ViaBlob(wr.src)
ReadBack == rd.ret # "none" /\ rd.dst_size = Len(wr.src)

Queried == gs.out # NoResult
KindByte == gs.in.src_buf[1]
FlagsByte == gs.in.src_buf[2]
\* the little-endian 32-bit value stored right after the flags byte
LengthField ==
    gs.in.src_buf[3] + 256 * gs.in.src_buf[4] + 65536 * gs.in.src_buf[5]
        + 16777216 * gs.in.src_buf[6]
KindInRange == KindByte \in 0 .. 4
PlainObject == FlagsByte % 2 = 0 /\ KindByte = H5R_OBJECT2

\* C11: a size query on a record with a valid kind returns src_size and sets
\* the direct-copy flag when the external bit is clear and the kind is the
\* plain object reference; in every other case it returns the 32-bit length
\* stored after the flags byte plus the header size and leaves the flag as the
\* caller had it.
C11_DiskGetsize ==
    (Queried /\ KindInRange) =>
        IF PlainObject
        THEN gs.out.ret = gs.in.src_size /\ gs.out.dst_copy
        ELSE /\ gs.out.ret = LengthField + H5R_ENCODE_HEADER_SIZE
             /\ gs.out.dst_copy = gs.in.dst_copy

C11_Witness ==
    /\ Queried
    /\ KindByte = H5R_OBJECT2
    /\ FlagsByte % 2 = 1
    /\ ~gs.in.dst_copy
    /\ gs.out.ret = 260
    /\ gs.out.ret # gs.in.src_size

IdLen(id) == id[1] + 256 * id[2] + 65536 * id[3] + 16777216 * id[4]
IdAddr(id) == DecodeLE(SubSeq(id, 5, 4 + sizeof_addr))
IdIdx(id) == DecodeLE(SubSeq(id, 5 + sizeof_addr, 8 + sizeof_addr))
RemoveOf(id) == [op |-> "remove", hobjid |-> <<IdAddr(id), IdIdx(id)>>]

\* C14: DELETE on a blob ID whose address is 0 does nothing on the heap and
\* succeeds; on a blob ID whose address is not 0, whatever its length field,
\* it calls the heap's remove once for that address and index and fails exactly
\* when that remove fails.
C14_AsStated ==
    bop.op = "DELETE" =>
        IF IdAddr(vl) = 0
        THEN bop.heapops = <<>> /\ bop.ret = SUCCEED /\ heap = bop.pre.heap
        ELSE /\ bop.heapops = <<RemoveOf(vl)>>
             /\ bop.ret = FAIL <=> ~bop.ok

\* C15: put stores the payload and writes a blob ID with a non-zero address
\* when the heap insert succeeds; when the insert fails it fails, stores
\* nothing and leaves the caller's blob ID buffer as it was.
C15_PutAtomic ==
    bop.op = "put" =>
        IF bop.ok
        THEN /\ bop.ret = SUCCEED
             /\ IdAddr(vl) # 0
             /\ <<IdAddr(vl), IdIdx(vl)>> \in DOMAIN heap \ DOMAIN bop.pre.heap
             /\ heap[<<IdAddr(vl), IdIdx(vl)>>] = bop.blob
             /\ \A k \in DOMAIN bop.pre.heap : k \in DOMAIN heap /\ heap[k] = bop.pre.heap[k]
        ELSE /\ bop.ret = FAIL
             /\ heap = bop.pre.heap
             /\ vl = bop.pre.vl

C15_Witness ==
    /\ bop.op = "put" /\ bop.ok /\ bop.ret = SUCCEED
    /\ IdAddr(bop.pre.vl) = 0
    /\ IdAddr(vl) # 0
    /\ Cardinality(DOMAIN heap) = 1

\* C16: ISNULL answers true exactly when the address field of the blob ID is 0,
\* and after SETNULL the address field is 0, so ISNULL right after SETNULL
\* answers true.
C16_SetnullIsnull ==
    /\ bop.op = "ISNULL" => (bop.ret = SUCCEED /\ (bop.isnull <=> IdAddr(vl) = 0))
    /\ bop.op = "SETNULL" => (bop.ret = SUCCEED /\ IdAddr(vl) = 0)
    /\ (bop.op = "ISNULL" /\ bop.prev = "SETNULL") => bop.isnull

C16_Witness ==
    /\ bop.op = "ISNULL" /\ bop.prev = "SETNULL" /\ bop.isnull
    /\ heap # EmptyHeap

\* C17: get on a blob ID whose address is 0 succeeds without reading the heap
\* and leaves the destination buffer as it was.
C17_GetNil ==
    (bop.op = "get" /\ IdAddr(vl) = 0) =>
        /\ bop.ret = SUCCEED
        /\ bop.heapops = <<>>
        /\ get_buf = bop.pre.buf

C17_Witness ==
    /\ bop.op = "get" /\ IdAddr(vl) = 0 /\ IdLen(vl) # 0 /\ IdIdx(vl) # 0
    /\ bop.ret = SUCCEED
    /\ ~bop.ok

\* the last callback was a put that succeeded: vl holds the blob ID it wrote
PutDone == bop.op = "put" /\ bop.ret = SUCCEED
\* the heap ID H5HG_insert returned to that put
Inserted == bop.heapops[1].hobjid

\* C26: the callback that follows a successful put on the blob ID the put wrote
\* agrees with it on the layout: GETSIZE returns the sequence length the put
\* encoded and makes no heap call, ISNULL answers false when the heap returned
\* a non-zero address, and get reads the heap object with exactly the address
\* and index H5HG_insert returned.
C26_Layout ==
    [][PutDone =>
        /\ bop'.op = "GETSIZE" =>
              (bop'.ret = SUCCEED /\ bop'.size = bop.seq_len /\ bop'.heapops = <<>>)
        /\ (bop'.op = "ISNULL" /\ Inserted[1] # 0) =>
              (bop'.ret = SUCCEED /\ ~bop'.isnull)
        /\ bop'.op = "get" =>
              bop'.heapops = <<[op |-> "read", hobjid |-> Inserted]>>]_vars

\* a get right after a put that recorded a sequence length of 2 for a blob in
\* a file with 2-byte addresses: the blob is in the buffer
C26_Witness ==
    /\ bop.op = "get" /\ bop.prev = "put" /\ bop.ret = SUCCEED
    /\ bop.pre.heap # EmptyHeap /\ IdLen(bop.pre.vl) = 2 /\ sizeof_addr = 2
    /\ Len(bop.heapops) = 1 /\ bop.heapops[1].hobjid \in DOMAIN heap
    /\ get_buf = heap[bop.heapops[1].hobjid]

(***************************************************************************)
(* Properties of H5T__ref_disk_read (SpecDisk)                             *)
(***************************************************************************)
\* C13: a disk read whose blob get retrieves a length other than the
\* destination size less the header fails with the size mismatch error, and in
\* that case nothing is written behind the dst_size bytes of the destination.
C13_AsStated ==
    (rd.got /\ rd.size # rd.dst_size - H5R_ENCODE_HEADER_SIZE) =>
        /\ rd.ret = FAIL /\ rd.err = "CANTDECODE"
        /\ Len(rd.dst) <= rd.dst_size

(***************************************************************************)
(* Properties of H5T__ref_mem_getsize and H5T__ref_mem_read (SpecMem)      *)
(***************************************************************************)
Asked(q) == q.err # "pending"
\* the location identifier of the reference resolves to an open file
Resolves == href.loc_id \in {"idA", "idB"}
\* the file behind the reference and the file behind a destination handle
OwnerFile == IF href.loc_id = "idA" THEN "sA" ELSE "sB"
FileOf(dst_f) == IF dst_f \in {"fA", "fA2"} THEN "sA" ELSE "sB"
SameFile(dst_f) == Resolves /\ OwnerFile = FileOf(dst_f)

\* C18: a memory size query sets the direct-copy flag only when the file of
\* the reference is the destination file, the cached encode size is not 0 and
\* the reference is an object reference; in every other case it leaves the
\* flag as the caller had it.
C18_DirectCopy ==
    Asked(mq.last) =>
        IF SameFile(mq.last.dst_f) /\ href.encode_size # 0 /\ href.type = H5R_OBJECT2
        THEN mq.last.dst_copy /\ mq.last.path = "cached"
        ELSE mq.last.dst_copy = mq.last.dst_copy0

C18_Witness ==
    /\ Asked(mq.last)
    /\ href.loc_id = "idA" /\ mq.last.dst_f = "fA2"
    /\ ~mq.last.dst_copy0 /\ mq.last.dst_copy

\* C19: for one reference and one destination the size query and the read
\* compute the same external flag, set exactly when the file of the reference
\* is not the destination file; the flags byte the read encodes carries that
\* bit, and a size obtained by the trial encode equals the number of bytes the
\* read encodes.
C19_SameFlag ==
    (Asked(mq.last) /\ Asked(mr) /\ mq.last.dst_f = mr.dst_f /\ Resolves) =>
        /\ mq.last.flags = mr.flags
        /\ mr.flags % 2 = 1 <=> ~SameFile(mr.dst_f)
        /\ mr.err = "none" => (mr.dst[2] % 2 = 1 <=> ~SameFile(mr.dst_f))
        /\ (mr.err = "none" /\ mq.last.path = "encode") =>
                (mq.last.err = "none" /\ mq.last.ret = mr.n)

C19_Witness ==
    /\ Asked(mq.last) /\ Asked(mr)
    /\ href.loc_id = "idA" /\ mq.last.dst_f = "fB" /\ mr.dst_f = "fB"
    /\ mr.err = "none" /\ mr.dst[2] = H5R_IS_EXTERNAL
    /\ mq.last.path = "encode" /\ mq.last.ret = mr.n /\ mr.n = Len(mr.dst)

\* two size queries in a row for the same destination, the first successful,
\* on an object reference whose file is the destination file
TwoQueries ==
    /\ Asked(mq.prev) /\ Asked(mq.last)
    /\ mq.prev.dst_f = mq.last.dst_f
    /\ mq.prev.err = "none"
    /\ href.type = H5R_OBJECT2 /\ SameFile(mq.last.dst_f)

\* C20 as stated: of two such size queries the first is a trial encode, the
\* second takes the cached size, and both return the same size.
C20_AsStated ==
    TwoQueries =>
        /\ mq.prev.path = "encode"
        /\ mq.last.path = "cached"
        /\ mq.last.ret = mq.prev.ret

\* C20: two such size queries take the same branch and return the same size:
\* the size query does not store the size it computes, so both take the cached
\* size when the reference has one and both do the trial encode when it has
\* none.
C20_SamePath ==
    TwoQueries =>
        /\ mq.last.path = mq.prev.path
        /\ mq.last.err = "none"
        /\ mq.last.ret = mq.prev.ret
        /\ mq.last.path = "cached" <=> href.encode_size # 0
        /\ mq.last.path = "cached" => mq.last.ret = href.encode_size

C20_Witness ==
    /\ TwoQueries
    /\ mq.prev.path = "encode" /\ mq.last.path = "encode"
    /\ mq.last.ret = mq.prev.ret /\ mq.last.ret > H5R_ENCODE_HEADER_SIZE
    /\ href.encode_size = 0

\* C23: the size query of a deprecated object reference on disk returns the
\* address width of the file the datatype is bound to, whatever that width is:
\* the value H5T__ref_set_loc stored as the size of the record.
LegacyObjBound ==
    dt.loc = H5T_LOC_DISK /\ dt.getsize = "H5T__ref_obj_disk_getsize"

C23_AsStated ==
    LegacyObjBound =>
        /\ H5T__ref_obj_disk_getsize(dt.f) = H5F_SIZEOF_ADDR(dt.f)
        /\ H5T__ref_obj_disk_getsize(dt.f) = dt.size

\* C24: after any sequence of H5T__ref_set_loc calls, failed ones included, an
\* opaque descriptor whose location is Disk has the disk getsize, read and write
\* bound and the generic record width of its file; and a failed call leaves the
\* location and the file of the descriptor as they were.
GenericOnDisk == dt.opaque /\ dt.loc = H5T_LOC_DISK

C24_AsStated ==
    /\ GenericOnDisk =>
           /\ Triple(dt) = <<"H5T__ref_disk_getsize", "H5T__ref_disk_read",
                             "H5T__ref_disk_write">>
           /\ dt.size = GenericDiskSize(files[dt.f],
                                        H5R__encode_size(Uint8(files[dt.f].token_size)))
    /\ (Called /\ call.ret = FAIL) => (dt.loc = call.pre.loc /\ dt.f = call.pre.f)

\* C22: a memory read in which a step fails (the location identifier does not
\* resolve, the file behind it does not resolve, or the encode fails) returns
\* an error and never reports success.
C22_AsStated ==
    (Asked(mr) /\ mr.err # "none") => mr.ret = FAIL

(***************************************************************************)
(* Properties of H5T__ref_mem_write (SpecMemWrite)                         *)
(***************************************************************************)
Wrote == mw.err # "pending"
\* the identifier of the file the write was given
SourceId == IF mw.src_f \in {"fA", "fA2"} THEN "idA" ELSE "idB"
\* the call succeeded and left the file's identifier in the reference
Attached == mw.ret = SUCCEED /\ href.loc_id = SourceId

\* C21: after a memory write, on every return path, the reference count of the
\* source file's identifier is its count before the call plus one when the
\* call succeeded and attached the identifier to the reference, and its count
\* before the call otherwise; no other identifier's count changes.
C21_NoLeak ==
    Wrote =>
        \A i \in FileIds :
            idcount[i] = mw.pre[i] + (IF i = SourceId /\ Attached THEN 1 ELSE 0)

\* a write that resolved the identifier, failed to attach it, and gave it back
C21_Witness ==
    /\ Wrote
    /\ mw.ret = FAIL /\ mw.err = "CANTSET"
    /\ mw.loc_id = SourceId
    /\ idcount = mw.pre
    /\ mw.pre[SourceId] > 0
====
